---- MODULE Spec2Model ----
(***************************************************************************)
(* Model of the open-builder launcher (src/src/main.cpp) and of Endpoint   *)
(* equality (src/src/common/common/network/endpoint.h).                    *)
(*                                                                         *)
(* Text is modelled as a sequence of one-character strings, so that the    *)
(* conversions the launcher relies on (std::stoi, operator>> of an input   *)
(* stream) are computed character by character, as the library does.       *)
(***************************************************************************)
EXTENDS Integers, Sequences, FiniteSets, TLC

(***************************************************************************)
(* Bounds of the model.                                                    *)
(***************************************************************************)
\* number of command-line parameters after the program name
MaxArgs == 2
\* number of whitespace-separated tokens of a generated config.txt
MaxTokens == 3
\* largest port number of a generated Endpoint
MaxPort == 1

(***************************************************************************)
(* Text literals.                                                          *)
(***************************************************************************)
ProgName == <<"o", "b">>
S_server == <<"-", "s", "e", "r", "v", "e", "r">>
S_client == <<"-", "c", "l", "i", "e", "n", "t">>
S_skin == <<"-", "s", "k", "i", "n">>
S_8 == <<"8">>
S_1 == <<"1">>
S_30 == <<"3", "0">>
S_abc == <<"a", "b", "c">>
S_huge == <<"9", "9", "9", "9", "9", "9", "9", "9", "9", "9", "9">>
S_ff8 == <<"\f", "8">>
K_FULLSCREEN == <<"F", "U", "L", "L", "S", "C", "R", "E", "E", "N">>
K_WIN_WIDTH == <<"W", "I", "N", "_", "W", "I", "D", "T", "H">>
K_WIN_HEIGHT == <<"W", "I", "N", "_", "H", "E", "I", "G", "H", "T">>
K_FPS_CAPPED == <<"F", "P", "S", "_", "C", "A", "P", "P", "E", "D">>
K_FPS == <<"F", "P", "S">>
K_FOV == <<"F", "O", "V">>
K_SKIN == <<"S", "K", "I", "N">>
K_WORLD_HEIGHT == <<"W", "O", "R", "L", "D", "_", "H", "E", "I", "G", "H", "T">>
K_WORLD_SIZE == <<"W", "O", "R", "L", "D", "_", "S", "I", "Z", "E">>
T_256 == <<"2", "5", "6">>
T_FOO == <<"F", "O", "O">>
T_bar == <<"b", "a", "r">>
T_5SKIN == <<"5", "S", "K", "I", "N">>

\* every sequence over S of length at most n
SeqsUpTo(S, n) == UNION {[1..k -> S] : k \in 0..n}

(***************************************************************************)
(* Character classes and decimal conversion, as strtol and num_get do it.  *)
(***************************************************************************)
Digits == <<"0", "1", "2", "3", "4", "5", "6", "7", "8", "9">>

IsDigit(c) == \E k \in 1..10 : Digits[k] = c

DigitVal(c) == (CHOOSE k \in 1..10 : Digits[k] = c) - 1

\* The vertical tab (0x0b), which no string literal can hold: the two
\* characters \v stand for it as one element of a text.
VerticalTab == "\\v"

\* isspace in the "C" locale: blank, \t, \n, \v, \f, \r
IsSpace(c) == c \in {" ", "\t", "\n", VerticalTab, "\f", "\r"}

\* the limits of a 32-bit int
IntMax == 2147483647
IntMin == (-2147483647) - 1
\* IntMin \div 10, rounded toward zero: the last accumulator that can take a digit
MinAccDiv10 == -214748364

\* first index at or after i that holds no white space (Len(s)+1 at the end)
RECURSIVE SkipSpace(_, _)
SkipSpace(s, i) ==
    IF i <= Len(s) /\ IsSpace(s[i]) THEN SkipSpace(s, i + 1) ELSE i

\* The run of digits from index i. The value is accumulated negated, so that
\* the whole range of int is representable; ovf is set once it leaves the range.
RECURSIVE ScanDigits(_, _, _, _)
ScanDigits(s, i, acc, ovf) ==
    IF i > Len(s) \/ ~IsDigit(s[i])
    THEN [next |-> i, acc |-> acc, ovf |-> ovf]
    ELSE LET d == DigitVal(s[i])
         IN  IF ovf \/ acc < MinAccDiv10 \/ (acc = MinAccDiv10 /\ d > 8)
             THEN ScanDigits(s, i + 1, acc, TRUE)
             ELSE ScanDigits(s, i + 1, (acc * 10) - d, FALSE)

\* Decimal integer at index i: white space, an optional sign, digits; the
\* conversion stops at the first character that is no digit.
\*   kind "eof"      nothing but white space is left
\*   kind "nodigits" no digit follows the optional sign
\*   kind "range"    the digits do not fit an int (val is the nearer limit)
\*   kind "ok"       val is the value, next the index after the last digit
ParseInteger(s, i) ==
    LET j == SkipSpace(s, i)
        signed == j <= Len(s) /\ s[j] \in {"-", "+"}
        neg == j <= Len(s) /\ s[j] = "-"
        k == IF signed THEN j + 1 ELSE j
        r == ScanDigits(s, k, 0, FALSE)
    IN  IF j > Len(s) THEN [kind |-> "eof", val |-> 0, next |-> j]
        ELSE IF r.next = k THEN [kind |-> "nodigits", val |-> 0, next |-> k]
        ELSE IF r.ovf \/ (~neg /\ r.acc = IntMin)
             THEN [kind |-> "range", val |-> IF neg THEN IntMin ELSE IntMax,
                   next |-> r.next]
        ELSE [kind |-> "ok", val |-> IF neg THEN r.acc ELSE -r.acc,
              next |-> r.next]

\* std::stoi: the value, or the exception it throws
Stoi(s) ==
    LET p == ParseInteger(s, 1)
    IN  CASE p.kind = "ok" -> [thrown |-> "none", val |-> p.val]
          [] p.kind = "range" -> [thrown |-> "out_of_range", val |-> 0]
          [] OTHER -> [thrown |-> "invalid_argument", val |-> 0]

(***************************************************************************)
(* Configuration values.  ServerConfig and ClientConfig are declared in    *)
(* headers that are not part of the sources at hand, so the value a field  *)
(* has after construction is kept abstract: Builtin.  A value the launcher *)
(* writes is tagged with its type.                                         *)
(***************************************************************************)
Builtin == <<"builtin">>

IntV(n) == <<"int", n>>

BoolV(b) == <<"bool", b>>

StrV(s) == <<"str", s>>

LaunchTypes == {"Server", "Client", "Both", "TwoPlayer"}

\* Config after construction
DefaultConfig ==
    [launchType |-> "TwoPlayer",
     serverOptions |-> [maxConnections |-> Builtin, worldHeight |-> Builtin,
                        worldSize |-> Builtin],
     clientOptions |-> [fullScreen |-> Builtin, windowWidth |-> Builtin,
                        windowHeight |-> Builtin, isFpsCapped |-> Builtin,
                        fpsLimit |-> Builtin, fov |-> Builtin,
                        skinName |-> Builtin]]

(***************************************************************************)
(* Formatted extraction from std::ifstream.  Each operator returns the new *)
(* read position, whether the stream failed, whether the target was        *)
(* written and the value written.                                          *)
(***************************************************************************)
\* end of the run of non-space characters that starts at i
RECURSIVE WordEnd(_, _)
WordEnd(s, i) ==
    IF i <= Len(s) /\ ~IsSpace(s[i]) THEN WordEnd(s, i + 1) ELSE i

\* inFile >> std::string: skips white space, reads up to the next white space;
\* fails when no character is left
ExtractString(file, pos) ==
    LET j == SkipSpace(file, pos)
        e == WordEnd(file, j)
    IN  IF j > Len(file)
        THEN [fail |-> TRUE, written |-> FALSE, val |-> <<>>, next |-> j]
        ELSE [fail |-> FALSE, written |-> TRUE,
              val |-> SubSeq(file, j, e - 1), next |-> e]

\* inFile >> int: at end of input nothing is written; without a digit 0 is
\* written; out of range the nearer limit is written; each of these fails
ExtractInt(file, pos) ==
    LET p == ParseInteger(file, pos)
    IN  CASE p.kind = "eof" ->
               [fail |-> TRUE, written |-> FALSE, val |-> 0, next |-> p.next]
          [] p.kind = "ok" ->
               [fail |-> FALSE, written |-> TRUE, val |-> p.val, next |-> p.next]
          [] OTHER ->
               [fail |-> TRUE, written |-> TRUE, val |-> p.val, next |-> p.next]

\* inFile >> bool (no boolalpha): 0 and 1 are read; any other number reads as
\* true and fails; without a digit false is written and the stream fails
ExtractBool(file, pos) ==
    LET p == ParseInteger(file, pos)
    IN  CASE p.kind = "eof" ->
               [fail |-> TRUE, written |-> FALSE, val |-> FALSE, next |-> p.next]
          [] p.kind = "ok" /\ p.val \in {0, 1} ->
               [fail |-> FALSE, written |-> TRUE, val |-> (p.val = 1),
                next |-> p.next]
          [] p.kind = "nodigits" ->
               [fail |-> TRUE, written |-> TRUE, val |-> FALSE, next |-> p.next]
          [] OTHER ->
               [fail |-> TRUE, written |-> TRUE, val |-> TRUE, next |-> p.next]

\* the declared type of the field each recognised key is read into
FieldType(key) ==
    CASE key \in {K_FULLSCREEN, K_FPS_CAPPED} -> "bool"
      [] key = K_SKIN -> "string"
      [] OTHER -> "int"

\* inFile >> field, for the field's type; val is the tagged value
ExtractField(type, file, pos) ==
    CASE type = "bool" ->
           LET e == ExtractBool(file, pos)
           IN  [fail |-> e.fail, written |-> e.written, val |-> BoolV(e.val),
                next |-> e.next]
      [] type = "string" ->
           LET e == ExtractString(file, pos)
           IN  [fail |-> e.fail, written |-> e.written, val |-> StrV(e.val),
                next |-> e.next]
      [] OTHER ->
           LET e == ExtractInt(file, pos)
           IN  [fail |-> e.fail, written |-> e.written, val |-> IntV(e.val),
                next |-> e.next]

\* the body of the loop of loadFromConfigFile for the key just read: the
\* config with the field of that key assigned v
AssignKey(cfg, key, v) ==
    IF key = K_FULLSCREEN THEN [cfg EXCEPT !.clientOptions.fullScreen = v]
    ELSE IF key = K_WIN_WIDTH THEN [cfg EXCEPT !.clientOptions.windowWidth = v]
    ELSE IF key = K_WIN_HEIGHT THEN [cfg EXCEPT !.clientOptions.windowHeight = v]
    ELSE IF key = K_FPS_CAPPED THEN [cfg EXCEPT !.clientOptions.isFpsCapped = v]
    ELSE IF key = K_FPS THEN [cfg EXCEPT !.clientOptions.fpsLimit = v]
    ELSE IF key = K_FOV THEN [cfg EXCEPT !.clientOptions.fov = v]
    ELSE IF key = K_SKIN THEN [cfg EXCEPT !.clientOptions.skinName = v]
    ELSE IF key = K_WORLD_HEIGHT THEN [cfg EXCEPT !.serverOptions.worldHeight = v]
    ELSE IF key = K_WORLD_SIZE THEN [cfg EXCEPT !.serverOptions.worldSize = v]
    ELSE cfg

ConfigKeys ==
    {K_FULLSCREEN, K_WIN_WIDTH, K_WIN_HEIGHT, K_FPS_CAPPED, K_FPS, K_FOV,
     K_SKIN, K_WORLD_HEIGHT, K_WORLD_SIZE}

\* while (inFile >> line) { ... }: from read position pos to the end of the
\* file, or to the first extraction that fails
RECURSIVE LoadLoop(_, _, _)
LoadLoop(file, pos, cfg) ==
    LET line == ExtractString(file, pos)
    IN  IF line.fail THEN cfg
        ELSE IF line.val \in ConfigKeys
        THEN LET e == ExtractField(FieldType(line.val), file, line.next)
                 c == IF e.written THEN AssignKey(cfg, line.val, e.val) ELSE cfg
             IN  IF e.fail THEN c ELSE LoadLoop(file, e.next, c)
        ELSE LoadLoop(file, line.next, cfg)

\* loadFromConfigFile; a config.txt that does not exist reads as the empty file
loadFromConfigFile(cfg, file) == LoadLoop(file, 1, cfg)

(***************************************************************************)
(* The command line.                                                       *)
(***************************************************************************)
\* lower and upper limit of -server's parameter, and the fallback
MinConnections == 2
MaxConnections == 16
FallbackConnections == 4

\* main's loop over argv: C's argv[i] is argv[i + 1] here, argc is Len(argv)
RECURSIVE BuildArgs(_, _)
BuildArgs(argv, i) ==
    IF i >= Len(argv) THEN <<>>
    ELSE IF Len(argv[i + 1]) > 0 /\ argv[i + 1][1] = "-" /\ Len(argv) > i + 1
         THEN <<<<argv[i + 1], argv[i + 2]>>>> \o BuildArgs(argv, i + 1)
         ELSE BuildArgs(argv, i + 1)

\* One iteration of parseArgs' loop.  thrown is the exception that leaves the
\* iteration ("none": it completed), logs the number of fallback reasons
\* written to std::cout.
ParseOption(cfg, option) ==
    IF option[1] = S_server
    THEN LET c == [cfg EXCEPT !.launchType = "Server"]
             n == Stoi(option[2])
             caught == n.thrown = "invalid_argument"
                       \/ (n.thrown = "none"
                           /\ (n.val < MinConnections \/ n.val > MaxConnections))
         IN  IF n.thrown = "out_of_range"
             THEN [config |-> c, thrown |-> "out_of_range", logs |-> 0]
             ELSE IF caught
             THEN [config |-> [c EXCEPT !.serverOptions.maxConnections =
                                            IntV(FallbackConnections)],
                   thrown |-> "none", logs |-> 1]
             ELSE [config |-> c, thrown |-> "none", logs |-> 0]
    ELSE IF option[1] = S_client
    THEN [config |-> [cfg EXCEPT !.launchType = "Client"], thrown |-> "none",
          logs |-> 0]
    ELSE IF option[1] = S_skin
    THEN [config |-> [cfg EXCEPT !.clientOptions.skinName = StrV(option[2])],
          thrown |-> "none", logs |-> 0]
    ELSE [config |-> cfg, thrown |-> "none", logs |-> 0]

\* parseArgs from option i on; an exception ends the loop and leaves parseArgs
RECURSIVE ParseFrom(_, _, _, _)
ParseFrom(cfg, args, i, logs) ==
    IF i > Len(args) THEN [config |-> cfg, thrown |-> "none", logs |-> logs]
    ELSE LET r == ParseOption(cfg, args[i])
         IN  IF r.thrown # "none"
             THEN [config |-> r.config, thrown |-> r.thrown,
                   logs |-> logs + r.logs]
             ELSE ParseFrom(r.config, args, i + 1, logs + r.logs)

parseArgs(cfg, args) == ParseFrom(cfg, args, 1, 0)

(***************************************************************************)
(* Exit messages and the client's status.                                  *)
(***************************************************************************)
EXIT_SUCCESS == 0
EXIT_FAILURE == 1

\* exitSuccess and exitFailure: the message printed and the flag returned
exitSuccess == [message |-> "success", code |-> EXIT_SUCCESS]

exitFailure == [message |-> "failure", code |-> EXIT_FAILURE]

\* The values runClientEngine can return: the six that launchClient names, and
\* "Unrecognised" for any other value of EngineStatus.
EngineStatuses ==
    {"Ok", "Exit", "ExitServerDisconnect", "ExitServerTimeout", "GLInitError",
     "CouldNotConnect", "Unrecognised"}

\* launchClient with the server-timeout case taken for a failure
launchClientMut(status) ==
    CASE status \in {"Exit", "Ok"} -> exitSuccess
      [] status = "ExitServerDisconnect" -> exitSuccess
      [] OTHER -> exitFailure

\* launchClient's switch on the status runClientEngine returned
launchClient(status) ==
    CASE status \in {"Exit", "Ok"} -> exitSuccess
      [] status = "ExitServerDisconnect" -> exitSuccess
      [] status = "ExitServerTimeout" -> exitSuccess
      [] status = "GLInitError" -> exitFailure
      [] status = "CouldNotConnect" -> exitFailure
      [] OTHER -> exitFailure

\* the time-outs handed to launchServer, in milliseconds
DefaultServerTimeout == 8000
BothServerTimeout == 5000
TwoPlayerServerTimeout == 20000

(***************************************************************************)
(* State.                                                                  *)
(***************************************************************************)
VARIABLES
    argv,         \* the command line, program name first
    configFile,   \* the characters of config.txt (empty: no file)
    enetResult,   \* what enet_initialize returns
    pc,           \* where each thread is
    args,         \* main's vector of <argument, param> pairs
    config,       \* main's Config
    enetInits,    \* calls of enet_initialize
    enetDeinits,  \* calls of enet_deinitialize
    fallbackLogs, \* fallback reasons parseArgs wrote
    messages,     \* the exit messages printed, in order
    exitCode,     \* what main returned (-1: it has not returned)
    lsArg,        \* launchServer's timeout argument, per calling thread
    serverRuns,   \* the calls of runServerEngine: thread and timeout
    clientRuns,   \* the threads that called runClientEngine, in order
    clientStatus, \* what runClientEngine returned, per thread
    clientRet,    \* what launchClient returned, per thread (-1: not yet)
    recipes,      \* how each of three Endpoints is built
    endpoints,    \* the three Endpoints, once built
    eq            \* eq[i][j]: endpoints[i] == endpoints[j], once compared

launcherVars ==
    <<argv, configFile, enetResult, pc, args, config, enetInits, enetDeinits,
      fallbackLogs, messages, exitCode, lsArg, serverRuns, clientRuns,
      clientStatus, clientRet>>

endpointVars == <<recipes, endpoints, eq>>

vars == <<launcherVars, endpointVars>>

Threads == {"main", "server", "client2"}

(***************************************************************************)
(* main, up to the switch on the launch type.                              *)
(***************************************************************************)
\* enet_initialize and the early return when it fails
MainEnetInit ==
    /\ pc["main"] = "main_start"
    /\ enetInits' = enetInits + 1
    /\ IF enetResult # 0
       THEN /\ messages' = Append(messages, exitFailure.message)
            /\ exitCode' = exitFailure.code
            /\ pc' = [pc EXCEPT !["main"] = "returned"]
       ELSE /\ pc' = [pc EXCEPT !["main"] = "main_args"]
            /\ UNCHANGED <<messages, exitCode>>
    /\ UNCHANGED <<argv, configFile, enetResult, args, config, enetDeinits,
                   fallbackLogs, lsArg, serverRuns, clientRuns, clientStatus,
                   clientRet, endpointVars>>

\* the loop that pairs each argument starting with '-' with its successor
MainBuildArgs ==
    /\ pc["main"] = "main_args"
    /\ args' = BuildArgs(argv, 1)
    /\ pc' = [pc EXCEPT !["main"] = "main_config"]
    /\ UNCHANGED <<argv, configFile, enetResult, config, enetInits,
                   enetDeinits, fallbackLogs, messages, exitCode, lsArg,
                   serverRuns, clientRuns, clientStatus, clientRet,
                   endpointVars>>

\* loadFromConfigFile(config)
MainLoadConfig ==
    /\ pc["main"] = "main_config"
    /\ config' = loadFromConfigFile(config, configFile)
    /\ pc' = [pc EXCEPT !["main"] = "main_parse"]
    /\ UNCHANGED <<argv, configFile, enetResult, args, enetInits, enetDeinits,
                   fallbackLogs, messages, exitCode, lsArg, serverRuns,
                   clientRuns, clientStatus, clientRet, endpointVars>>

\* parseArgs(config, args); an exception that leaves it leaves main as well,
\* and the process is terminated
MainParseArgs ==
    /\ pc["main"] = "main_parse"
    /\ LET r == parseArgs(config, args)
       IN  /\ config' = r.config
           /\ fallbackLogs' = fallbackLogs + r.logs
           /\ pc' = [pc EXCEPT !["main"] =
                        IF r.thrown = "none" THEN "main_switch" ELSE "aborted"]
    /\ UNCHANGED <<argv, configFile, enetResult, args, enetInits, enetDeinits,
                   messages, exitCode, lsArg, serverRuns, clientRuns,
                   clientStatus, clientRet, endpointVars>>

\* switch (config.launchType): every case returns what its launcher returns;
\* enet_deinitialize follows the switch
MainSwitch ==
    /\ pc["main"] = "main_switch"
    /\ IF config.launchType \in LaunchTypes
       THEN /\ pc' = [pc EXCEPT !["main"] =
                         CASE config.launchType = "Both" -> "both_spawn"
                           [] config.launchType = "Server" -> "ls_entry"
                           [] config.launchType = "Client" -> "lc_entry"
                           [] config.launchType = "TwoPlayer" -> "two_spawn"]
            /\ lsArg' = IF config.launchType = "Server"
                        THEN [lsArg EXCEPT !["main"] = DefaultServerTimeout]
                        ELSE lsArg
            /\ UNCHANGED <<enetDeinits, exitCode>>
       ELSE /\ enetDeinits' = enetDeinits + 1
            /\ exitCode' = EXIT_SUCCESS
            /\ pc' = [pc EXCEPT !["main"] = "returned"]
            /\ UNCHANGED lsArg
    /\ UNCHANGED <<argv, configFile, enetResult, args, config, enetInits,
                   fallbackLogs, messages, serverRuns, clientRuns,
                   clientStatus, clientRet, endpointVars>>

(***************************************************************************)
(* launchServer and launchClient, on the thread t that runs them.          *)
(***************************************************************************)
\* launchServer calls runServerEngine(config, timeout)
ServerEngineStart(t) ==
    /\ pc[t] = "ls_entry"
    /\ serverRuns' = Append(serverRuns, [thread |-> t, timeout |-> lsArg[t]])
    /\ pc' = [pc EXCEPT ![t] = "ls_run"]
    /\ UNCHANGED <<argv, configFile, enetResult, args, config, enetInits,
                   enetDeinits, fallbackLogs, messages, exitCode, lsArg,
                   clientRuns, clientStatus, clientRet, endpointVars>>

\* runServerEngine returns and launchServer returns EXIT_SUCCESS, to main's
\* return statement or as the end of the server thread
ServerEngineReturn(t) ==
    /\ pc[t] = "ls_run"
    /\ IF t = "main"
       THEN /\ exitCode' = EXIT_SUCCESS
            /\ pc' = [pc EXCEPT ![t] = "returned"]
       ELSE /\ pc' = [pc EXCEPT ![t] = "exited"]
            /\ UNCHANGED exitCode
    /\ UNCHANGED <<argv, configFile, enetResult, args, config, enetInits,
                   enetDeinits, fallbackLogs, messages, lsArg, serverRuns,
                   clientRuns, clientStatus, clientRet, endpointVars>>

\* launchClient calls runClientEngine(config)
ClientEngineStart(t) ==
    /\ pc[t] = "lc_entry"
    /\ clientRuns' = Append(clientRuns, t)
    /\ pc' = [pc EXCEPT ![t] = "lc_run"]
    /\ UNCHANGED <<argv, configFile, enetResult, args, config, enetInits,
                   enetDeinits, fallbackLogs, messages, exitCode, lsArg,
                   serverRuns, clientStatus, clientRet, endpointVars>>

\* runClientEngine returns status; launchClient prints its message and returns
\* to its caller: main's return statement, launchBoth, launchServerAnd2Players,
\* or the end of the second client's thread
ClientEngineReturn(t, status) ==
    /\ pc[t] = "lc_run"
    /\ LET r == launchClient(status)
       IN  /\ messages' = Append(messages, r.message)
           /\ clientStatus' = [clientStatus EXCEPT ![t] = status]
           /\ clientRet' = [clientRet EXCEPT ![t] = r.code]
           /\ exitCode' = IF t = "main" /\ config.launchType = "Client"
                          THEN r.code ELSE exitCode
           /\ pc' = [pc EXCEPT ![t] =
                        CASE t # "main" -> "exited"
                          [] config.launchType = "Client" -> "returned"
                          [] config.launchType = "Both" -> "both_join"
                          [] OTHER -> "two_join2"]
    /\ UNCHANGED <<argv, configFile, enetResult, args, config, enetInits,
                   enetDeinits, fallbackLogs, lsArg, serverRuns, clientRuns,
                   endpointVars>>

(***************************************************************************)
(* launchBoth.                                                             *)
(***************************************************************************)
\* std::thread serverThread(launchServer, config.serverOptions, 5000 ms)
BothSpawnServer ==
    /\ pc["main"] = "both_spawn"
    /\ lsArg' = [lsArg EXCEPT !["server"] = BothServerTimeout]
    /\ pc' = [pc EXCEPT !["main"] = "both_sleep", !["server"] = "ls_entry"]
    /\ UNCHANGED <<argv, configFile, enetResult, args, config, enetInits,
                   enetDeinits, fallbackLogs, messages, exitCode, serverRuns,
                   clientRuns, clientStatus, clientRet, endpointVars>>

\* sleep_for(6500 ms), then the call of launchClient
BothSleep ==
    /\ pc["main"] = "both_sleep"
    /\ pc' = [pc EXCEPT !["main"] = "lc_entry"]
    /\ UNCHANGED <<argv, configFile, enetResult, args, config, enetInits,
                   enetDeinits, fallbackLogs, messages, exitCode, lsArg,
                   serverRuns, clientRuns, clientStatus, clientRet,
                   endpointVars>>

\* launchBoth detaching the server thread where it should join it
BothJoinMut ==
    /\ pc["main"] = "both_join"
    /\ exitCode' = clientRet["main"]
    /\ pc' = [pc EXCEPT !["main"] = "returned"]
    /\ UNCHANGED <<argv, configFile, enetResult, args, config, enetInits,
                   enetDeinits, fallbackLogs, messages, lsArg, serverRuns,
                   clientRuns, clientStatus, clientRet, endpointVars>>

\* serverThread.join() waits for the thread to end; then return exit
BothJoin ==
    /\ pc["main"] = "both_join"
    /\ pc["server"] = "exited"
    /\ exitCode' = clientRet["main"]
    /\ pc' = [pc EXCEPT !["main"] = "returned", !["server"] = "joined"]
    /\ UNCHANGED <<argv, configFile, enetResult, args, config, enetInits,
                   enetDeinits, fallbackLogs, messages, lsArg, serverRuns,
                   clientRuns, clientStatus, clientRet, endpointVars>>

(***************************************************************************)
(* launchServerAnd2Players.                                                *)
(***************************************************************************)
\* launchServerAnd2Players starting the server with launchServer's default
\* timeout
TwoSpawnServerMut ==
    /\ pc["main"] = "two_spawn"
    /\ lsArg' = [lsArg EXCEPT !["server"] = DefaultServerTimeout]
    /\ pc' = [pc EXCEPT !["main"] = "two_sleep", !["server"] = "ls_entry"]
    /\ UNCHANGED <<argv, configFile, enetResult, args, config, enetInits,
                   enetDeinits, fallbackLogs, messages, exitCode, serverRuns,
                   clientRuns, clientStatus, clientRet, endpointVars>>

\* std::thread serverThread(launchServer, config.serverOptions, 20000 ms)
TwoSpawnServer ==
    /\ pc["main"] = "two_spawn"
    /\ lsArg' = [lsArg EXCEPT !["server"] = TwoPlayerServerTimeout]
    /\ pc' = [pc EXCEPT !["main"] = "two_sleep", !["server"] = "ls_entry"]
    /\ UNCHANGED <<argv, configFile, enetResult, args, config, enetInits,
                   enetDeinits, fallbackLogs, messages, exitCode, serverRuns,
                   clientRuns, clientStatus, clientRet, endpointVars>>

\* sleep_for(1000 ms)
TwoSleep ==
    /\ pc["main"] = "two_sleep"
    /\ pc' = [pc EXCEPT !["main"] = "two_spawn2"]
    /\ UNCHANGED <<argv, configFile, enetResult, args, config, enetInits,
                   enetDeinits, fallbackLogs, messages, exitCode, lsArg,
                   serverRuns, clientRuns, clientStatus, clientRet,
                   endpointVars>>

\* std::thread client2(launchClient, config.clientOptions), then the call of
\* launchClient on the main thread
TwoSpawnClient2 ==
    /\ pc["main"] = "two_spawn2"
    /\ pc' = [pc EXCEPT !["main"] = "lc_entry", !["client2"] = "lc_entry"]
    /\ UNCHANGED <<argv, configFile, enetResult, args, config, enetInits,
                   enetDeinits, fallbackLogs, messages, exitCode, lsArg,
                   serverRuns, clientRuns, clientStatus, clientRet,
                   endpointVars>>

\* client2.join()
TwoJoinClient2 ==
    /\ pc["main"] = "two_join2"
    /\ pc["client2"] = "exited"
    /\ pc' = [pc EXCEPT !["main"] = "two_joinS", !["client2"] = "joined"]
    /\ UNCHANGED <<argv, configFile, enetResult, args, config, enetInits,
                   enetDeinits, fallbackLogs, messages, exitCode, lsArg,
                   serverRuns, clientRuns, clientStatus, clientRet,
                   endpointVars>>

\* serverThread.join(), then return exit
TwoJoinServer ==
    /\ pc["main"] = "two_joinS"
    /\ pc["server"] = "exited"
    /\ exitCode' = clientRet["main"]
    /\ pc' = [pc EXCEPT !["main"] = "returned", !["server"] = "joined"]
    /\ UNCHANGED <<argv, configFile, enetResult, args, config, enetInits,
                   enetDeinits, fallbackLogs, messages, lsArg, serverRuns,
                   clientRuns, clientStatus, clientRet, endpointVars>>

(***************************************************************************)
(* Endpoint.  sf::IpAddress keeps the 32-bit address and whether it is     *)
(* valid; it keeps nothing of the form it was built from.  The address is  *)
(* held here in host order, which is what toInteger returns.               *)
(***************************************************************************)
\* sf::IpAddress(b0, b1, b2, b3), sf::IpAddress(Uint32) and sf::IpAddress()
IpAddress(recipe) ==
    CASE recipe.how = "bytes" ->
           [m_address |-> (recipe.b[1] * 16777216) + (recipe.b[2] * 65536)
                          + (recipe.b[3] * 256) + recipe.b[4],
            m_valid |-> TRUE]
      [] recipe.how = "integer" -> [m_address |-> recipe.n, m_valid |-> TRUE]
      [] OTHER -> [m_address |-> 0, m_valid |-> FALSE]

toInteger(address) == address.m_address

\* struct Endpoint { sf::IpAddress address; port_t port; }
Endpoint(recipe) == [address |-> IpAddress(recipe), port |-> recipe.port]

\* Endpoint equality through sf::IpAddress's own comparison, which tells a
\* valid address from an invalid one
EndpointEqualsMut(left, right) ==
    left.port = right.port /\ left.address = right.address

\* operator==(const Endpoint&, const Endpoint&)
EndpointEquals(left, right) ==
    left.port = right.port
    /\ toInteger(left.address) = toInteger(right.address)

\* the three Endpoints are built
EndpointConstruct ==
    /\ endpoints = <<>>
    /\ endpoints' = [i \in 1..3 |-> Endpoint(recipes[i])]
    /\ UNCHANGED <<recipes, eq, launcherVars>>

\* every pair of them is compared
EndpointCompare ==
    /\ endpoints # <<>>
    /\ eq = <<>>
    /\ eq' = [i \in 1..3 |->
                [j \in 1..3 |-> EndpointEquals(endpoints[i], endpoints[j])]]
    /\ UNCHANGED <<recipes, endpoints, launcherVars>>

(***************************************************************************)
(* Inputs.                                                                 *)
(***************************************************************************)
\* the words a generated command line is made of
ArgVocab ==
    {S_server, S_client, S_skin, S_8, S_1, S_30, S_abc, S_huge, S_ff8}

CommandLines == {<<ProgName>> \o p : p \in SeqsUpTo(ArgVocab, MaxArgs)}

\* the tokens, separated by single blanks
RECURSIVE JoinTokens(_)
JoinTokens(ts) ==
    IF Len(ts) = 0 THEN <<>>
    ELSE IF Len(ts) = 1 THEN ts[1]
    ELSE ts[1] \o <<" ">> \o JoinTokens(Tail(ts))

\* the tokens a generated config.txt is made of
TokenVocab == {K_WORLD_SIZE, T_256, T_FOO, T_bar, K_SKIN, T_5SKIN}

\* a config.txt that sets every option, one KEY VALUE pair a line
FullConfigFile ==
    K_FULLSCREEN \o <<" ", "1", "\n">> \o K_WIN_WIDTH \o <<" ", "8", "\n">>
    \o K_WIN_HEIGHT \o <<" ", "6", "\n">> \o K_FPS_CAPPED \o <<" ", "0", "\n">>
    \o K_FPS \o <<" ", "3", "0", "\n">> \o K_FOV \o <<" ", "9", "0", "\n">>
    \o K_SKIN \o <<" ">> \o T_bar \o <<"\n">>
    \o K_WORLD_HEIGHT \o <<" ", "4", "\n">>
    \o K_WORLD_SIZE \o <<" ">> \o T_256 \o <<"\n">>

\* a config.txt whose tokens are separated by a form feed and a vertical tab
FeedConfigFile ==
    K_FOV \o <<" ", "1", "\f">> \o K_SKIN \o <<VerticalTab>> \o T_bar

GeneratedConfigFiles ==
    {JoinTokens(ts) : ts \in SeqsUpTo(TokenVocab, MaxTokens)}
    \cup {FullConfigFile, FeedConfigFile}

\* the config files main is run with: none, and one of two lines
MainConfigFiles == {<<>>, JoinTokens(<<K_WORLD_SIZE, T_256, T_FOO, T_bar>>)}

\* the addresses Endpoints are built from
ByteTuples == {<<0, 0, 0, 0>>, <<10, 0, 0, 1>>, <<127, 0, 0, 1>>}

AddressValue(b) == (b[1] * 16777216) + (b[2] * 65536) + (b[3] * 256) + b[4]

EndpointRecipes ==
    {[how |-> "bytes", b |-> b, n |-> 0, port |-> p] :
        b \in ByteTuples, p \in 0..MaxPort}
    \cup {[how |-> "integer", b |-> <<>>, n |-> AddressValue(b), port |-> p] :
        b \in ByteTuples, p \in 0..MaxPort}
    \cup {[how |-> "none", b |-> <<>>, n |-> 0, port |-> p] : p \in 0..MaxPort}

(***************************************************************************)
(* Specifications.                                                         *)
(***************************************************************************)
\* the launcher's state before main's first statement, but for the inputs
LauncherStart ==
    /\ pc = [t \in Threads |-> IF t = "main" THEN "main_start" ELSE "idle"]
    /\ args = <<>>
    /\ config = DefaultConfig
    /\ enetInits = 0
    /\ enetDeinits = 0
    /\ fallbackLogs = 0
    /\ messages = <<>>
    /\ exitCode = -1
    /\ lsArg = [t \in {"main", "server"} |-> 0]
    /\ serverRuns = <<>>
    /\ clientRuns = <<>>
    /\ clientStatus = [t \in {"main", "client2"} |-> "none"]
    /\ clientRet = [t \in {"main", "client2"} |-> -1]

NoEndpoints ==
    /\ recipes = <<>>
    /\ endpoints = <<>>
    /\ eq = <<>>

\* a run of the program: any command line, with or without a config.txt,
\* enet_initialize succeeding (0) or failing (-1)
Init ==
    /\ argv \in CommandLines
    /\ configFile \in MainConfigFiles
    /\ enetResult \in {0, -1}
    /\ LauncherStart
    /\ NoEndpoints

LaunchActions ==
    \/ \E t \in {"main", "server"} : ServerEngineStart(t)
    \/ \E t \in {"main", "server"} : ServerEngineReturn(t)
    \/ \E t \in {"main", "client2"} : ClientEngineStart(t)
    \/ \E t \in {"main", "client2"}, status \in EngineStatuses :
          ClientEngineReturn(t, status)
    \/ TwoSpawnServer
    \/ TwoSleep
    \/ TwoSpawnClient2
    \/ TwoJoinClient2
    \/ TwoJoinServer

\* launchBoth is left out: no command line and no config file sets
\* LaunchType::Both, so main never calls it
Next ==
    \/ MainEnetInit
    \/ MainBuildArgs
    \/ MainLoadConfig
    \/ MainParseArgs
    \/ MainSwitch
    \/ LaunchActions

Spec == Init /\ [][Next]_vars

\* The launchers, each called as main's switch calls it, for every launch
\* type: this is where launchBoth runs.
InitLaunch ==
    /\ argv = <<ProgName>>
    /\ configFile = <<>>
    /\ enetResult = 0
    /\ pc = [t \in Threads |-> IF t = "main" THEN "main_switch" ELSE "idle"]
    /\ args = <<>>
    /\ config \in {[DefaultConfig EXCEPT !.launchType = l] : l \in LaunchTypes}
    /\ enetInits = 1
    /\ enetDeinits = 0
    /\ fallbackLogs = 0
    /\ messages = <<>>
    /\ exitCode = -1
    /\ lsArg = [t \in {"main", "server"} |-> 0]
    /\ serverRuns = <<>>
    /\ clientRuns = <<>>
    /\ clientStatus = [t \in {"main", "client2"} |-> "none"]
    /\ clientRet = [t \in {"main", "client2"} |-> -1]
    /\ NoEndpoints

NextLaunch ==
    \/ MainSwitch
    \/ LaunchActions
    \/ BothSpawnServer
    \/ BothSleep
    \/ BothJoin

SpecLaunch == InitLaunch /\ [][NextLaunch]_vars

\* loadFromConfigFile alone, on every generated config.txt
InitConfig ==
    /\ argv = <<ProgName>>
    /\ configFile \in GeneratedConfigFiles
    /\ enetResult = 0
    /\ pc = [t \in Threads |-> IF t = "main" THEN "main_config" ELSE "idle"]
    /\ args = <<>>
    /\ config = DefaultConfig
    /\ enetInits = 1
    /\ enetDeinits = 0
    /\ fallbackLogs = 0
    /\ messages = <<>>
    /\ exitCode = -1
    /\ lsArg = [t \in {"main", "server"} |-> 0]
    /\ serverRuns = <<>>
    /\ clientRuns = <<>>
    /\ clientStatus = [t \in {"main", "client2"} |-> "none"]
    /\ clientRet = [t \in {"main", "client2"} |-> -1]
    /\ NoEndpoints

NextConfig == MainLoadConfig

SpecConfig == InitConfig /\ [][NextConfig]_vars

\* Endpoint equality alone, on every three generated Endpoints
InitEndpoint ==
    /\ argv = <<ProgName>>
    /\ configFile = <<>>
    /\ enetResult = 0
    /\ LauncherStart
    /\ recipes \in [1..3 -> EndpointRecipes]
    /\ endpoints = <<>>
    /\ eq = <<>>

NextEndpoint ==
    \/ EndpointConstruct
    \/ EndpointCompare

SpecEndpoint == InitEndpoint /\ [][NextEndpoint]_vars

(***************************************************************************)
(* Properties.                                                             *)
(***************************************************************************)
Returned == pc["main"] = "returned"

\* the command line holds the word w as one of its parameters
HasParam(w) == \E i \in 2..Len(argv) : argv[i] = w

\* the decimal numeral of n, 0 <= n <= 99
Decimal(n) ==
    IF n < 10 THEN <<Digits[n + 1]>>
    ELSE <<Digits[(n \div 10) + 1], Digits[(n % 10) + 1]>>

\* s is the numeral of a connection count within the limits
DenotesInRange(s) == \E n \in MinConnections..MaxConnections : s = Decimal(n)

\* the whitespace-separated tokens of a file, from read position pos on
RECURSIVE TokensFrom(_, _)
TokensFrom(file, pos) ==
    LET j == SkipSpace(file, pos)
        e == WordEnd(file, j)
    IN  IF j > Len(file) THEN <<>>
        ELSE <<SubSeq(file, j, e - 1)>> \o TokensFrom(file, e)

\* the option a config key stands for
OptionOf(cfg, key) ==
    CASE key = K_FULLSCREEN -> cfg.clientOptions.fullScreen
      [] key = K_WIN_WIDTH -> cfg.clientOptions.windowWidth
      [] key = K_WIN_HEIGHT -> cfg.clientOptions.windowHeight
      [] key = K_FPS_CAPPED -> cfg.clientOptions.isFpsCapped
      [] key = K_FPS -> cfg.clientOptions.fpsLimit
      [] key = K_FOV -> cfg.clientOptions.fov
      [] key = K_SKIN -> cfg.clientOptions.skinName
      [] key = K_WORLD_HEIGHT -> cfg.serverOptions.worldHeight
      [] key = K_WORLD_SIZE -> cfg.serverOptions.worldSize

\* the numeric address an Endpoint is built for
NumericAddress(recipe) ==
    CASE recipe.how = "bytes" -> AddressValue(recipe.b)
      [] recipe.how = "integer" -> recipe.n
      [] OTHER -> 0

\* C1: enet_initialize is called exactly once, before any engine is launched,
\* and whenever main returns after a successful initialisation
\* enet_deinitialize has been called exactly once.
C1_EnetReleasedOnEveryReturn ==
    /\ enetInits <= 1
    /\ (serverRuns # <<>> \/ clientRuns # <<>>) => enetInits = 1
    /\ enetDeinits <= 1
    /\ (Returned /\ enetResult = 0) => enetDeinits = 1

\* C2: once parseArgs has processed the single option pair ("-server", N) with
\* 2 <= N <= 16, the launch type is Server and maxConnections is N.
C2_ServerSetsMaxConnections ==
    \A n \in MinConnections..MaxConnections :
        (pc["main"] = "main_switch" /\ args = <<<<S_server, Decimal(n)>>>>)
        => /\ config.launchType = "Server"
           /\ config.serverOptions.maxConnections = IntV(n)

\* C3: a parameter of -server that is no number within 2..16 never ends the
\* process; parseArgs logs one fallback reason for it, leaves maxConnections
\* at 4 and goes on to main's switch.
C3_BadServerParamRecovered ==
    /\ pc["main"] # "aborted"
    /\ (/\ pc["main"] = "main_switch"
        /\ \E i \in 1..Len(args) :
              args[i][1] = S_server /\ ~DenotesInRange(args[i][2]))
       => /\ config.serverOptions.maxConnections = IntV(FallbackConnections)
          /\ fallbackLogs =
                Cardinality({i \in 1..Len(args) :
                    args[i][1] = S_server /\ ~DenotesInRange(args[i][2])})

\* C4: launchClient returns 0 for Ok, Exit, ExitServerDisconnect and
\* ExitServerTimeout and 1 for every other status; main returns what the
\* client on its thread returned; when enet_initialize fails main returns 1
\* and no engine is ever launched.
C4_ExitCodeFollowsStatus ==
    /\ \A t \in {"main", "client2"} :
          clientStatus[t] # "none" =>
              clientRet[t] =
                  IF clientStatus[t] \in {"Ok", "Exit", "ExitServerDisconnect",
                                          "ExitServerTimeout"}
                  THEN 0 ELSE 1
    /\ (Returned /\ clientStatus["main"] # "none") => exitCode = clientRet["main"]
    /\ enetResult # 0 => (serverRuns = <<>> /\ clientRuns = <<>>)
    /\ (Returned /\ enetResult # 0) => exitCode = 1

\* C4's case: the client on main's thread ended on a server timeout and main
\* returned 0.
C4_Witness ==
    /\ Returned
    /\ clientStatus["main"] = "ExitServerTimeout"
    /\ exitCode = 0

\* C5: a command line with the flag -client and without the flag -server runs
\* one client engine and no server engine.
C5_ClientFlagRunsClientOnly ==
    (HasParam(S_client) /\ ~HasParam(S_server) /\ enetResult = 0)
    => /\ serverRuns = <<>>
       /\ Len(clientRuns) <= 1
       /\ Returned => clientRuns = <<"main">>

\* C6: without a launch flag and without a config file main takes the
\* two-player test mode and no other: one server engine, on the server
\* thread, with a timeout of 20 seconds, and two client engines.
C6_DefaultIsTwoPlayer ==
    (~HasParam(S_server) /\ ~HasParam(S_client) /\ configFile = <<>>
        /\ enetResult = 0)
    => /\ config.launchType = "TwoPlayer"
       /\ pc["main"] \notin {"ls_entry", "ls_run", "both_spawn", "both_sleep",
                             "both_join", "aborted"}
       /\ Len(serverRuns) <= 1
       /\ \A i \in 1..Len(serverRuns) :
             serverRuns[i] = [thread |-> "server", timeout |-> 20000]
       /\ Len(clientRuns) <= 2
       /\ Returned => (Len(serverRuns) = 1
                       /\ clientRuns \in {<<"main", "client2">>,
                                          <<"client2", "main">>})

\* C6's case: main has returned from a run without flags and config file.
C6_Witness ==
    /\ ~HasParam(S_server) /\ ~HasParam(S_client)
    /\ configFile = <<>>
    /\ enetResult = 0
    /\ Returned
    /\ Len(clientRuns) = 2

\* C7: Endpoint equality is reflexive, symmetric and transitive, and two
\* Endpoints are equal exactly when their numeric addresses and their ports
\* are, however the addresses were built.
C7_EndpointEquality ==
    eq # <<>> =>
        \A i, j, k \in 1..3 :
            /\ eq[i][i]
            /\ eq[i][j] => eq[j][i]
            /\ (eq[i][j] /\ eq[j][k]) => eq[i][k]
            /\ eq[i][j] <=> (/\ NumericAddress(recipes[i]) = NumericAddress(recipes[j])
                             /\ recipes[i].port = recipes[j].port)

\* C7's case: two Endpoints built in different ways for the same address and
\* port compared equal, and a third one differs from them.
C7_Witness ==
    /\ eq # <<>>
    /\ recipes[1].how = "bytes"
    /\ recipes[2].how = "integer"
    /\ eq[1][2]
    /\ ~eq[2][3]

\* C8: when main returns, exactly one exit message has been printed, and main
\* returns the code that goes with it; at no time are there two.
C8_ExactlyOneExitMessage ==
    /\ Len(messages) <= 1
    /\ Returned => /\ Len(messages) = 1
                   /\ exitCode = IF messages[1] = "success" THEN 0 ELSE 1

\* C9: after loadFromConfigFile every option whose key is not among the
\* tokens of the file has its built-in value, and the file WORLD_SIZE 256
\* sets worldSize to 256.
C9_OnlyPresentKeysSetOptions ==
    pc["main"] = "main_parse" =>
        /\ \A key \in ConfigKeys :
              (\A i \in 1..Len(TokensFrom(configFile, 1)) :
                    TokensFrom(configFile, 1)[i] # key)
              => OptionOf(config, key) = Builtin
        /\ TokensFrom(configFile, 1) = <<K_WORLD_SIZE, T_256>>
              => config.serverOptions.worldSize = IntV(256)

\* C10: launchBoth and launchServerAnd2Players return only when every thread
\* they started has run its engine, ended and been joined.
C10_ReturnsAfterJoins ==
    (Returned /\ config.launchType \in {"Both", "TwoPlayer"})
    => /\ pc["server"] = "joined"
       /\ \E i \in 1..Len(serverRuns) : serverRuns[i].thread = "server"
       /\ config.launchType = "TwoPlayer"
             => (pc["client2"] = "joined" /\ clientStatus["client2"] # "none")

\* C10's case: launchServerAnd2Players has returned.
C10_Witness ==
    /\ Returned
    /\ config.launchType = "TwoPlayer"
    /\ pc["server"] = "joined"
    /\ pc["client2"] = "joined"

====
